---- MODULE Spec2Model ----
(***************************************************************************)
(* State-machine model of the Flask application in src/main.py: the        *)
(* in-memory store app_data, the four store handlers (admin_login,         *)
(* update_config, challenge_login, verify_secret) and the prompt relay     *)
(* handle_prompt with its API-key fallback loop over the process-wide      *)
(* genai client configuration.                                              *)
(***************************************************************************)
EXTENDS Integers, Sequences, FiniteSets, TLC

(* ------------------------------ bounds -------------------------------- *)
\* number of prompt-relay requests the server handles (possibly concurrently)
NumRequests == 2
\* salts generate_password_hash can draw: 1..MaxSalt
MaxSalt == 2

(* --------------------------- value domains ---------------------------- *)
\* Python None / a JSON field that is absent (data.get returns None)
None == "<None>"

\* passwords a client can send; PasswordSeq numbers them for the digest
PasswordSeq == <<"admin123", "challenge123", "pw1">>
Passwords == {PasswordSeq[k] : k \in 1..Len(PasswordSeq)}
PasswordInputs == Passwords \cup {None, ""}

\* secrets a client can send
Secrets == {"SECRET_KEY_IS_SAFE", "s1"}
SecretInputs == Secrets \cup {None, ""}

\* prompts a client can send (data.get('prompt', '') yields '' when absent)
PromptInputs == {"", "hey"}

\* values of the two environment variables: unset, empty, or a key
PrimaryValues == {None, "", "K1"}
FallbackValues == {None, "", "K2"}

\* texts response.text can be
Texts == {"", "hello"}

\* fixed response bodies of handle_prompt
ProvidePrompt == "Please provide a prompt."
NotConfigured == "Server-side error: The AI model is not configured."
Trouble == "Sorry, I'm having trouble thinking right now due to an unexpected issue."
HighDemand == "Sorry, our service is experiencing high demand right now. Please try again in a moment."

\* outcomes of one model.generate_content call followed by response.text
Outcomes == [kind : {"ok"}, text : Texts]
              \cup [kind : {"ResourceExhausted", "Exception"}, text : {None}]

Salts == 1..MaxSalt
Requests == 1..NumRequests

VARIABLES
    environ,        \* os.environ: GEMINI_API_KEY, GEMINI_API_KEY_FALLBACK
    app_data,       \* the in-memory store
    genai_api_key,  \* the process-wide key set by genai.configure
    req,            \* per prompt-relay request: locals of handle_prompt
    last,           \* the last store-handler call and its response
    supplied        \* history: last non-empty password / secret sent to update_config

vars == <<environ, app_data, genai_api_key, req, last, supplied>>

(* ------------------------- Python helpers ----------------------------- *)
\* truthiness of an optional string: None and '' are falsy
Truthy(x) == x # None /\ x # ""

\* position of a password in PasswordSeq
PwCode(p) == CHOOSE k \in 1..Len(PasswordSeq) : PasswordSeq[k] = p

\* the salted digest: one value per (salt, password) pair
Digest(salt, p) == salt * (Len(PasswordSeq) + 1) + PwCode(p)

\* werkzeug generate_password_hash with the salt it drew
generate_password_hash(p, salt) == [salt |-> salt, digest |-> Digest(salt, p)]

\* variant of check_password_hash that re-hashes with a fixed salt instead of the stored one
check_password_hash_fixed_salt(h, p) == generate_password_hash(p, 1) = h

\* werkzeug check_password_hash: re-hash with the stored salt and compare
check_password_hash(h, p) == Digest(h.salt, p) = h.digest

\* [key for key in api_keys if key]
available_keys_of(env) ==
    SelectSeq(<<env.GEMINI_API_KEY, env.GEMINI_API_KEY_FALLBACK>>, Truthy)

IdleRequest ==
    [pc |-> "idle", user_prompt |-> None, available_keys |-> <<>>,
     system_instruction |-> None, i |-> 0, ai_response |-> None,
     last_error |-> None, attempts |-> <<>>, status |-> 0, response |-> None]

NoCall ==
    [op |-> "none", password |-> None, secret |-> None,
     status |-> 0, success |-> FALSE, repeated |-> FALSE]

\* the response of a store handler, with whether the call repeats the previous one
Called(op, password, secret, status, success) ==
    [op |-> op, password |-> password, secret |-> secret,
     status |-> status, success |-> success,
     repeated |-> (last.op = op /\ last.password = password /\ last.secret = secret)]

(* ------------------------------ Init ---------------------------------- *)
\* the state after module load when the two default hashes drew salts sa, sc
Loaded(sa, sc) ==
    /\ environ \in [GEMINI_API_KEY : PrimaryValues,
                    GEMINI_API_KEY_FALLBACK : FallbackValues]
    /\ app_data = [admin_password_hash |-> generate_password_hash("admin123", sa),
                   challenge_password_hash |-> generate_password_hash("challenge123", sc),
                   secret_key |-> "SECRET_KEY_IS_SAFE"]
    \* module-level genai.configure(api_key=os.environ["GEMINI_API_KEY"]);
    \* KeyError when unset leaves the client unconfigured
    /\ genai_api_key = environ.GEMINI_API_KEY
    /\ req = [r \in Requests |-> IdleRequest]
    /\ last = NoCall
    /\ supplied = [password |-> "challenge123", secret |-> "SECRET_KEY_IS_SAFE"]

Init == \E sa \in Salts, sc \in Salts : Loaded(sa, sc)

\* handle_prompt reads only secret_key of the store and never writes the
\* store, so the relay is explored from the loads of one salt
InitPrompt == Loaded(1, 1)

(* -------------------------- store handlers ---------------------------- *)
admin_login(password) ==
    /\ last' = IF ~Truthy(password)
                 THEN Called("admin_login", password, None, 400, FALSE)
               ELSE IF check_password_hash(app_data.admin_password_hash, password)
                 THEN Called("admin_login", password, None, 200, TRUE)
               ELSE Called("admin_login", password, None, 401, FALSE)
    /\ UNCHANGED <<environ, app_data, genai_api_key, req, supplied>>

\* variant of updated_app_data that writes the new hash to the admin field
updated_app_data_admin(new_secret, new_password, salt) ==
    [app_data EXCEPT
       !.secret_key = IF Truthy(new_secret) THEN new_secret ELSE @,
       !.admin_password_hash =
           IF Truthy(new_password)
             THEN generate_password_hash(new_password, salt) ELSE @]

\* variant of updated_app_data that tests `new_secret is not None`
updated_app_data_not_none(new_secret, new_password, salt) ==
    [app_data EXCEPT
       !.secret_key = IF new_secret # None THEN new_secret ELSE @,
       !.challenge_password_hash =
           IF Truthy(new_password)
             THEN generate_password_hash(new_password, salt) ELSE @]

\* variant of updated_app_data that assigns secret_key unconditionally
updated_app_data_always(new_secret, new_password, salt) ==
    [app_data EXCEPT
       !.secret_key = new_secret,
       !.challenge_password_hash =
           IF Truthy(new_password)
             THEN generate_password_hash(new_password, salt) ELSE @]

\* the store after update_config(new_secret, new_password) drew salt
updated_app_data(new_secret, new_password, salt) ==
    [app_data EXCEPT
       !.secret_key = IF Truthy(new_secret) THEN new_secret ELSE @,
       !.challenge_password_hash =
           IF Truthy(new_password)
             THEN generate_password_hash(new_password, salt) ELSE @]

\* history of the non-empty fields sent to update_config
Supplied(new_secret, new_password) ==
    [password |-> IF Truthy(new_password) THEN new_password ELSE supplied.password,
     secret |-> IF Truthy(new_secret) THEN new_secret ELSE supplied.secret]

update_config(new_secret, new_password) ==
    /\ \E salt \in Salts :
         app_data' = updated_app_data(new_secret, new_password, salt)
    /\ last' = Called("update_config", new_password, new_secret, 200, TRUE)
    /\ supplied' = Supplied(new_secret, new_password)
    /\ UNCHANGED <<environ, genai_api_key, req>>

challenge_login(password) ==
    /\ last' = IF ~Truthy(password)
                 THEN Called("challenge_login", password, None, 400, FALSE)
               ELSE IF check_password_hash(app_data.challenge_password_hash, password)
                 THEN Called("challenge_login", password, None, 200, TRUE)
               ELSE Called("challenge_login", password, None, 401, FALSE)
    /\ UNCHANGED <<environ, app_data, genai_api_key, req, supplied>>

verify_secret(submitted_secret) ==
    /\ last' = Called("verify_secret", None, submitted_secret, 200,
                      submitted_secret = app_data.secret_key)
    /\ UNCHANGED <<environ, app_data, genai_api_key, req, supplied>>

(* --------------------------- prompt relay ----------------------------- *)
\* variant of handle_prompt that tests the credential list before the prompt
handle_prompt_keys_first(r, user_prompt) ==
    /\ req[r].pc = "idle"
    /\ LET keys == available_keys_of(environ) IN
         req' = [req EXCEPT ![r] =
           IF keys = <<>>
             THEN [@ EXCEPT !.pc = "done", !.user_prompt = user_prompt,
                            !.status = 500, !.response = NotConfigured]
           ELSE IF ~Truthy(user_prompt)
             THEN [@ EXCEPT !.pc = "done", !.user_prompt = user_prompt,
                            !.status = 400, !.response = ProvidePrompt]
           ELSE [@ EXCEPT !.pc = "loop", !.user_prompt = user_prompt,
                          !.available_keys = keys,
                          !.system_instruction = app_data.secret_key,
                          !.i = 1]]
    /\ UNCHANGED <<environ, app_data, genai_api_key, last, supplied>>

\* lines 91-124: the pre-checks and the set-up of the loop
handle_prompt(r, user_prompt) ==
    /\ req[r].pc = "idle"
    /\ LET keys == available_keys_of(environ) IN
         req' = [req EXCEPT ![r] =
           IF ~Truthy(user_prompt)
             THEN [@ EXCEPT !.pc = "done", !.user_prompt = user_prompt,
                            !.status = 400, !.response = ProvidePrompt]
           ELSE IF keys = <<>>
             THEN [@ EXCEPT !.pc = "done", !.user_prompt = user_prompt,
                            !.status = 500, !.response = NotConfigured]
           ELSE [@ EXCEPT !.pc = "loop", !.user_prompt = user_prompt,
                          !.available_keys = keys,
                          !.system_instruction = app_data.secret_key,
                          !.i = 1]]
    /\ UNCHANGED <<environ, app_data, genai_api_key, last, supplied>>

\* line 130: genai.configure(api_key=key) sets the process-wide key
configure(r) ==
    /\ req[r].pc = "loop"
    /\ genai_api_key' = req[r].available_keys[req[r].i]
    /\ req' = [req EXCEPT ![r].pc = "call"]
    /\ UNCHANGED <<environ, app_data, last, supplied>>

\* variant of after_attempt that moves on to the next key after any exception
after_attempt_continue(q, o) ==
    LET attempt == [key |-> q.available_keys[q.i], used |-> genai_api_key,
                    outcome |-> o.kind, text |-> o.text]
        logged == [q EXCEPT !.attempts = Append(@, attempt)]
    IN  IF o.kind = "ok"
          THEN [logged EXCEPT !.ai_response = o.text, !.pc = "after"]
        ELSE [logged EXCEPT !.last_error = o.kind, !.i = @ + 1,
                            !.ai_response = IF o.kind = "Exception" THEN Trouble ELSE @,
                            !.pc = IF q.i < Len(q.available_keys)
                                     THEN "loop" ELSE "after"]

\* the locals of request q after its generate_content call ended with outcome o
after_attempt(q, o) ==
    LET attempt == [key |-> q.available_keys[q.i], used |-> genai_api_key,
                    outcome |-> o.kind, text |-> o.text]
        logged == [q EXCEPT !.attempts = Append(@, attempt)]
    IN  IF o.kind = "ok"
          THEN [logged EXCEPT !.ai_response = o.text, !.pc = "after"]
        ELSE IF o.kind = "ResourceExhausted"
          THEN [logged EXCEPT !.last_error = o.kind, !.i = @ + 1,
                              !.pc = IF q.i < Len(q.available_keys)
                                       THEN "loop" ELSE "after"]
        ELSE [logged EXCEPT !.last_error = o.kind, !.ai_response = Trouble,
                            !.pc = "after"]

\* lines 132-154: the remote call is made with the process-wide key
generate_content(r, o) ==
    /\ req[r].pc = "call"
    /\ req' = [req EXCEPT ![r] = after_attempt(req[r], o)]
    /\ UNCHANGED <<environ, app_data, genai_api_key, last, supplied>>

\* the locals of request q after lines 157-164
responded(q) ==
    IF Truthy(q.ai_response)
      THEN [q EXCEPT !.pc = "done", !.status = 200, !.response = q.ai_response]
    ELSE [q EXCEPT !.pc = "done", !.status = 503, !.response = HighDemand]

respond(r) ==
    /\ req[r].pc = "after"
    /\ req' = [req EXCEPT ![r] = responded(req[r])]
    /\ UNCHANGED <<environ, app_data, genai_api_key, last, supplied>>

(* --------------------------- specifications --------------------------- *)
NextStore ==
    \/ \E password \in PasswordInputs : admin_login(password)
    \/ \E new_secret \in SecretInputs, new_password \in PasswordInputs :
         update_config(new_secret, new_password)
    \/ \E password \in PasswordInputs : challenge_login(password)
    \/ \E submitted_secret \in SecretInputs : verify_secret(submitted_secret)

NextPrompt ==
    \/ \E r \in Requests, user_prompt \in PromptInputs : handle_prompt(r, user_prompt)
    \/ \E r \in Requests : configure(r)
    \/ \E r \in Requests, o \in Outcomes : generate_content(r, o)
    \/ \E r \in Requests : respond(r)

Next == NextStore \/ NextPrompt

Spec == Init /\ [][Next]_vars

\* the store handlers alone
SpecStore == Init /\ [][NextStore]_vars

\* the prompt relay alone
SpecPrompt == InitPrompt /\ [][NextPrompt]_vars

\* a request that has started keeps running: the server thread is scheduled
\* and the remote call returns
Continue(r) == configure(r) \/ (\E o \in Outcomes : generate_content(r, o)) \/ respond(r)
FairSpecPrompt == SpecPrompt /\ \A r \in Requests : WF_vars(Continue(r))

(* ------------------------------ properties ---------------------------- *)
\* every attempt of q before the last one reported rate-limited
EarlierRateLimited(q) ==
    \A j \in 1..(Len(q.attempts) - 1) : q.attempts[j].outcome = "ResourceExhausted"

\* every attempt of q reported rate-limited
AllRateLimited(q) ==
    \A j \in 1..Len(q.attempts) : q.attempts[j].outcome = "ResourceExhausted"

\* q went past the pre-checks and has answered
Relayed(q) == q.pc = "done" /\ q.attempts # <<>>

\* C1: when an attempt succeeds after every earlier credential reported
\* rate-limited, the response is 200 and carries exactly the text that
\* attempt produced, whatever the text; no degraded message is returned.
C1_SuccessText ==
    \A r \in Requests :
      LET q == req[r]  n == Len(q.attempts) IN
        (Relayed(q) /\ q.attempts[n].outcome = "ok" /\ EarlierRateLimited(q))
          => /\ q.status = 200
             /\ q.response = q.attempts[n].text
             /\ q.response \notin {Trouble, HighDemand}

\* C2: when an attempt fails with a non-rate-limit error, the response is
\* the "trouble thinking" message with status 500.
C2_UnexpectedError ==
    \A r \in Requests :
      LET q == req[r]  n == Len(q.attempts) IN
        (Relayed(q) /\ q.attempts[n].outcome = "Exception")
          => q.response = Trouble /\ q.status = 500

\* C3: with a non-empty prompt and a non-empty credential list, the response
\* is 503 with the high-demand message exactly when every configured
\* credential's attempt reported rate-limited.
C3_HighDemandIff ==
    \A r \in Requests :
      LET q == req[r] IN
        (q.pc = "done" /\ Truthy(q.user_prompt) /\ available_keys_of(environ) # <<>>)
          => ((q.status = 503 /\ q.response = HighDemand)
                <=> (Len(q.attempts) = Len(q.available_keys) /\ AllRateLimited(q)))

\* C4: an empty prompt answers 400 whatever credentials are configured, a
\* non-empty prompt with no configured credential answers 500 "not
\* configured", and neither makes an attempt against the remote model.
C4_PreChecks ==
    \A r \in Requests :
      LET q == req[r] IN
        q.pc = "done" =>
          /\ ~Truthy(q.user_prompt)
               => q.status = 400 /\ q.response = ProvidePrompt /\ q.attempts = <<>>
          /\ (Truthy(q.user_prompt) /\ available_keys_of(environ) = <<>>)
               => q.status = 500 /\ q.response = NotConfigured /\ q.attempts = <<>>

\* with no credential configured, one request was refused for its empty
\* prompt and another for the missing configuration
C4_Witness ==
    /\ available_keys_of(environ) = <<>>
    /\ \E r1 \in Requests, r2 \in Requests :
         /\ req[r1].pc = "done" /\ req[r1].status = 400
         /\ req[r2].pc = "done" /\ req[r2].status = 500

\* C5: a login without a password answers 400; a challenge login succeeds
\* (200) exactly for the most recently supplied non-empty challenge password
\* and answers 401 otherwise; an admin login succeeds exactly for the default
\* admin password, and the accepted admin password never changes.
C5_Logins ==
    /\ (last.op \in {"admin_login", "challenge_login"} /\ ~Truthy(last.password))
         => last.status = 400 /\ ~last.success
    /\ (last.op = "challenge_login" /\ Truthy(last.password))
         => IF last.password = supplied.password
              THEN last.status = 200 /\ last.success
            ELSE last.status = 401 /\ ~last.success
    /\ (last.op = "admin_login" /\ Truthy(last.password))
         => IF last.password = "admin123"
              THEN last.status = 200 /\ last.success
            ELSE last.status = 401 /\ ~last.success
    /\ \A p \in Passwords :
         check_password_hash(app_data.admin_password_hash, p) <=> p = "admin123"

\* a challenge login with the default password is refused after the
\* password was replaced
C5_Witness ==
    /\ last.op = "challenge_login" /\ last.password = "challenge123"
    /\ last.status = 401 /\ supplied.password = "pw1"

\* C6: verify-secret always answers 200 and succeeds exactly when the
\* submission equals the most recently supplied non-empty secret; a missing
\* or empty submission never succeeds.
C6_Verify ==
    last.op = "verify_secret" =>
      /\ last.status = 200
      /\ last.success <=> last.secret = supplied.secret
      /\ ~Truthy(last.secret) => ~last.success

\* the default secret is refused after it was replaced
C6_Witness ==
    /\ last.op = "verify_secret" /\ last.secret = "SECRET_KEY_IS_SAFE"
    /\ ~last.success /\ supplied.secret = "s1"

\* C7: a config update answers 200 and touches only the fields provided: a
\* non-empty secret replaces the secret, a non-empty password replaces the
\* challenge hash, an absent or empty field leaves its store field
\* unchanged, and the admin hash never changes.
C7_Frame ==
    [][last'.op = "update_config" =>
         LET s == last'.secret  p == last'.password IN
           /\ last'.status = 200
           /\ app_data'.admin_password_hash = app_data.admin_password_hash
           /\ app_data'.secret_key = IF Truthy(s) THEN s ELSE app_data.secret_key
           /\ IF Truthy(p)
                THEN \E salt \in Salts :
                       app_data'.challenge_password_hash = generate_password_hash(p, salt)
              ELSE app_data'.challenge_password_hash = app_data.challenge_password_hash
      ]_vars

\* a secret-only update was made while a replaced challenge password was in force
C7_Witness ==
    /\ last.op = "update_config" /\ last.secret = "s1" /\ ~Truthy(last.password)
    /\ app_data.secret_key = "s1"
    /\ check_password_hash(app_data.challenge_password_hash, "pw1")

\* C8 as stated: the same config update applied twice in a row leaves the
\* store, the stored challenge_password_hash value included, as it was after
\* the first application.
C8_SameStore ==
    [][(last'.op = "update_config" /\ last'.repeated) => app_data' = app_data]_vars

\* C8 amended: the same config update applied twice in a row leaves the
\* secret and the admin hash as they were, and the challenge hash accepts
\* the same passwords as before; the stored hash value itself is unchanged
\* when the update carries no non-empty password.
C8_SameBehaviour ==
    [][(last'.op = "update_config" /\ last'.repeated) =>
         /\ app_data'.secret_key = app_data.secret_key
         /\ app_data'.admin_password_hash = app_data.admin_password_hash
         /\ \A p \in Passwords :
              check_password_hash(app_data'.challenge_password_hash, p)
                <=> check_password_hash(app_data.challenge_password_hash, p)
         /\ ~Truthy(last'.password) => app_data' = app_data
      ]_vars

\* an update carrying a password was applied twice in a row
C8_Witness ==
    last.op = "update_config" /\ last.repeated /\ last.password = "pw1"

\* the attempts of q follow the credential list: the j-th attempt is for the
\* j-th credential, there are no more attempts than credentials, and every
\* attempt but the last reported rate-limited
InListOrder(q) ==
    /\ Len(q.attempts) <= Len(q.available_keys)
    /\ \A j \in 1..Len(q.attempts) : q.attempts[j].key = q.available_keys[j]
    /\ EarlierRateLimited(q)
    /\ q.pc \in {"loop", "call"} => (q.i = Len(q.attempts) + 1 /\ AllRateLimited(q))
    /\ q.pc = "done" => q.status # 0

\* C9: within one request the credentials are attempted in list order, each
\* at most once, a credential only after all earlier ones reported
\* rate-limited, none after a success or a non-rate-limit error; a request
\* that entered the loop ends with a response.
C9_Sequential ==
    /\ [](\A r \in Requests : InListOrder(req[r]))
    /\ \A r \in Requests :
         (req[r].pc \in {"loop", "call", "after"}) ~> (req[r].pc = "done")

\* a request answered after a rate-limited primary and a second attempt
C9_Witness ==
    \E r \in Requests :
      /\ req[r].pc = "done" /\ Len(req[r].attempts) = 2
      /\ req[r].attempts[1].key = "K1" /\ req[r].attempts[2].key = "K2"

\* C10: every remote call is issued with the credential of the calling
\* request's own loop iteration, also when requests run concurrently.
C10_OwnCredential ==
    \A r \in Requests :
      \A j \in 1..Len(req[r].attempts) :
        req[r].attempts[j].used = req[r].attempts[j].key
====
